---- MODULE Spec2Model ----
(***************************************************************************)
(* Conditional visibility, answer collection and submit validation of the  *)
(* form builder client: the FormViewer component (client/src/App.tsx), the *)
(* FormFiller component (components/FormFiller.tsx) and the two builder    *)
(* preview evaluators.                                                     *)
(*                                                                         *)
(* JavaScript values are tagged records [t |-> typeof, v |-> payload];     *)
(* text is a sequence of one-character strings so that trim() and          *)
(* includes() are computed, not assumed.                                   *)
(***************************************************************************)
EXTENDS Integers, Sequences, FiniteSets

(***************************************************************************)
(* Bounds of the model.                                                    *)
(***************************************************************************)
\* longest rule list built on the evaluated field
MaxRules == 2
\* most fields the builder puts into a form
MaxFields == 2
\* most rules the builder puts into a form, over all of its fields
MaxFormRules == 1

\* the requests for tables, and for fields, that are in flight at a time
MaxPending == 2

\* the forms the Form collection holds at a time
MaxForms == 3

\* the last minute of the clock
MaxNow == 15

\* the token exchanges of a run
MaxExchanges == 2

\* the requests that need the database
MaxRequests == 4

(***************************************************************************)
(* JavaScript values.                                                      *)
(***************************************************************************)
Undefined == [t |-> "undefined", v |-> 0]
Str(s) == [t |-> "string", v |-> s]
Num(n) == [t |-> "number", v |-> n]
Bool(b) == [t |-> "boolean", v |-> b]
Arr(a) == [t |-> "array", v |-> a]
\* an array of File objects, by file name (FormFiller attachment input)
Files(a) == [t |-> "files", v |-> a]
\* the {filename, base64} records FormFiller sends for File objects
Attachments(a) == [t |-> "attachments", v |-> a]

IsArray(x) == x.t \in {"array", "files", "attachments"}

\* a === b on the values above: same type and same value; two arrays are
\* never identical to a rule's comparand, which is a primitive
StrictEquals(a, b) ==
    /\ a.t = b.t
    /\ ~IsArray(a)
    /\ a.v = b.v

\* the same type and the same value
SameTypeAndValue(observed, comparand) ==
    /\ observed.t = comparand.t
    /\ observed.v = comparand.v

\* !x
Falsy(x) ==
    \/ x.t = "undefined"
    \/ (x.t = "string" /\ x.v = <<>>)
    \/ (x.t = "number" /\ x.v = 0)
    \/ (x.t = "boolean" /\ x.v = FALSE)

IsWhitespace(c) == c = " "

\* String.prototype.trim
RECURSIVE TrimLeft(_)
TrimLeft(s) ==
    IF s # <<>> /\ IsWhitespace(Head(s)) THEN TrimLeft(Tail(s)) ELSE s

RECURSIVE TrimRight(_)
TrimRight(s) ==
    IF s # <<>> /\ IsWhitespace(s[Len(s)])
    THEN TrimRight(SubSeq(s, 1, Len(s) - 1))
    ELSE s

Trim(s) == TrimRight(TrimLeft(s))

\* String.prototype.includes
Includes(s, sub) ==
    \E i \in 0..(Len(s) - Len(sub)) : SubSeq(s, i + 1, i + Len(sub)) = sub

Digits == <<"0", "1", "2", "3", "4", "5", "6", "7", "8", "9">>

\* decimal text of a natural number
RECURSIVE NatToString(_)
NatToString(n) ==
    IF n < 10 THEN <<Digits[n + 1]>>
    ELSE NatToString(n \div 10) \o <<Digits[(n % 10) + 1]>>

\* String(x) for a rule's comparand (string | number | boolean)
JSString(x) ==
    CASE x.t = "string" -> x.v
      [] x.t = "number" ->
            IF x.v < 0 THEN <<"-">> \o NatToString(-x.v) ELSE NatToString(x.v)
      [] x.t = "boolean" ->
            IF x.v THEN <<"t", "r", "u", "e">> ELSE <<"f", "a", "l", "s", "e">>
      [] OTHER -> <<>>

\* formResponses[fieldId]: undefined when the key is absent
Lookup(responses, fieldId) ==
    IF fieldId \in DOMAIN responses THEN responses[fieldId] ELSE Undefined

(***************************************************************************)
(* The visibility evaluators.                                              *)
(***************************************************************************)
\* one rule of FormViewer.isFieldVisible / FormBuilder.isFieldVisibleInPreview
\* (the body of the rules.map callback)
OperatorResult(rule, responses) ==
    LET triggerValue == Lookup(responses, rule.fieldId)
    IN CASE rule.operator = "equals" -> StrictEquals(triggerValue, rule.value)
         [] rule.operator = "notEquals" -> ~StrictEquals(triggerValue, rule.value)
         [] rule.operator = "contains" ->
               /\ triggerValue.t = "string"
               /\ Includes(triggerValue.v, JSString(rule.value))
         [] rule.operator = "gt" ->
               /\ triggerValue.t = "number"
               /\ rule.value.t = "number"
               /\ triggerValue.v > rule.value.v
         [] rule.operator = "lt" ->
               /\ triggerValue.t = "number"
               /\ rule.value.t = "number"
               /\ triggerValue.v < rule.value.v
         [] OTHER -> FALSE

\* FormViewer.isFieldVisible without its empty-rules early return
FormViewer_isFieldVisible_noDefault(field, responses) ==
    LET rules == field.conditionalLogic.rules
        results == [i \in 1..Len(rules) |-> OperatorResult(rules[i], responses)]
    IN IF field.conditionalLogic.match = "all"
       THEN \A i \in 1..Len(rules) : results[i]
       ELSE \E i \in 1..Len(rules) : results[i]

\* FormViewer.isFieldVisible
FormViewer_isFieldVisible(field, responses) ==
    LET rules == field.conditionalLogic.rules
        results == [i \in 1..Len(rules) |-> OperatorResult(rules[i], responses)]
    IN IF Len(rules) = 0 THEN TRUE
       ELSE IF field.conditionalLogic.match = "all"
            THEN \A i \in 1..Len(rules) : results[i]
            ELSE \E i \in 1..Len(rules) : results[i]

\* FormBuilder.isFieldVisibleInPreview of client/src/App.tsx
AppBuilder_isFieldVisibleInPreview(field, previewResponses) ==
    LET rules == field.conditionalLogic.rules
        results == [i \in 1..Len(rules) |->
                        OperatorResult(rules[i], previewResponses)]
    IN IF Len(rules) = 0 THEN TRUE
       ELSE IF field.conditionalLogic.match = "all"
            THEN \A i \in 1..Len(rules) : results[i]
            ELSE \E i \in 1..Len(rules) : results[i]

\* the body of the rules.some callback without its first line
SomeRuleResult_noVacuous(rule, responses) ==
    StrictEquals(Lookup(responses, rule.fieldId), rule.value)

\* one rule of FormFiller.isFieldVisible and of the FormBuilder component's
\* isFieldVisibleInPreview (the body of the rules.some callback): the
\* operator is not read
SomeRuleResult(rule, responses) ==
    IF rule.fieldId = "" \/ StrictEquals(rule.value, Str(<<>>)) THEN TRUE
    ELSE StrictEquals(Lookup(responses, rule.fieldId), rule.value)

\* FormFiller.isFieldVisible: rules.some, whatever conditionalLogic.match is
FormFiller_isFieldVisible(field, responses) ==
    LET rules == field.conditionalLogic.rules
    IN IF Len(rules) = 0 THEN TRUE
       ELSE \E i \in 1..Len(rules) : SomeRuleResult(rules[i], responses)

\* isFieldVisibleInPreview of the FormBuilder component if it combined its
\* rules by conditionalLogic.match
ComponentBuilder_isFieldVisibleInPreview_byMatch(field, previewResponses) ==
    LET rules == field.conditionalLogic.rules
    IN IF Len(rules) = 0 THEN TRUE
       ELSE IF field.conditionalLogic.match = "all"
            THEN \A i \in 1..Len(rules) : SomeRuleResult(rules[i], previewResponses)
            ELSE \E i \in 1..Len(rules) : SomeRuleResult(rules[i], previewResponses)

\* isFieldVisibleInPreview of the FormBuilder component
ComponentBuilder_isFieldVisibleInPreview(field, previewResponses) ==
    LET rules == field.conditionalLogic.rules
    IN IF Len(rules) = 0 THEN TRUE
       ELSE \E i \in 1..Len(rules) : SomeRuleResult(rules[i], previewResponses)

(***************************************************************************)
(* Form definitions.                                                       *)
(***************************************************************************)
Rule(fieldId, operator, value) ==
    [fieldId |-> fieldId, operator |-> operator, value |-> value]

Logic(match, rules) == [match |-> match, rules |-> rules]

\* options holds the option ids
Field(fieldId, label, type, required, options, logic) ==
    [fieldId |-> fieldId, label |-> label, type |-> type,
     required |-> required, options |-> options, conditionalLogic |-> logic]

\* the forms the backend stores, by id (GET /api/forms/:formId)
StoredForms ==
    [f1 |-> [id |-> "f1",
             fields |-> <<Field("A", "LabelA", "shortText", TRUE, <<>>,
                                Logic("all", <<>>)),
                          Field("B", "LabelB", "longText", TRUE, <<>>,
                                Logic("all", <<Rule("A", "equals", Str(<<"x">>))>>))>>],
     f2 |-> [id |-> "f2",
             fields |-> <<Field("B", "LabelB", "multipleSelect", TRUE, <<"o1">>,
                                Logic("all", <<>>)),
                          Field("A", "LabelA", "singleSelect", TRUE, <<"x">>,
                                Logic("any", <<>>))>>],
     f3 |-> [id |-> "f3",
             fields |-> <<Field("A", "LabelA", "number", TRUE, <<>>,
                                Logic("all", <<>>)),
                          Field("B", "LabelB", "attachment", TRUE, <<>>,
                                Logic("any", <<Rule("A", "gt", Num(5)),
                                               Rule("A", "equals", Num(7))>>))>>]]

FormIds == DOMAIN StoredForms

NoForm == [id |-> "", fields |-> <<>>]

FieldIdsOf(f) == {f.fields[i].fieldId : i \in 1..Len(f.fields)}

Components == {"FormViewer", "FormFiller"}

\* what a user types into a text input or textarea
TypedTexts == {<<>>, <<" ">>, <<"x">>, <<"y">>}
\* what a user types into a number input: valueAsNumber, "NaN" when cleared
TypedNumbers == {0, 7}
\* the files a user picks in a file input
PickedFiles == {<<>>, <<"doc">>}

SeqRange(q) == {q[i] : i \in 1..Len(q)}

\* the values renderField's inputs hand to handleInputChange for a field
RenderedInputs(c, field, responses) ==
    LET stored == Lookup(responses, field.fieldId)
        \* (formResponses[fieldId] || '') as string[] || []
        currentValues == IF Falsy(stored) THEN <<>> ELSE stored.v
    IN CASE field.type \in {"shortText", "longText"} ->
               {Str(s) : s \in TypedTexts}
         [] field.type = "singleSelect" ->
               {Str(<<>>)} \cup {Str(<<o>>) : o \in SeqRange(field.options)}
         [] field.type = "multipleSelect" ->
               {Arr(IF o \in SeqRange(currentValues)
                    THEN SelectSeq(currentValues, LAMBDA v : v # o)
                    ELSE Append(currentValues, o)) : o \in SeqRange(field.options)}
         [] field.type = "attachment" ->
               IF c = "FormViewer"
               THEN {Arr(files) : files \in PickedFiles}
               ELSE {Files(files) : files \in PickedFiles}
         [] field.type = "number" /\ c = "FormFiller" ->
               \* e.target.valueAsNumber || ''
               {IF n = 0 THEN Str(<<>>) ELSE Num(n) : n \in TypedNumbers}
               \cup {Str(<<>>)}
         [] OTHER -> {}

\* useState<FormResponse>({})
EmptyResponses == [k \in {} |-> Undefined]

\* {...prev, [fieldId]: value}
Spread(prev, fieldId, value) ==
    [k \in DOMAIN prev \cup {fieldId} |-> IF k = fieldId THEN value ELSE prev[k]]

(***************************************************************************)
(* State.                                                                  *)
(***************************************************************************)
VARIABLES
    comp,            \* which component this session runs: FormViewer or FormFiller
    formId,          \* FormViewer's formId state / FormFiller's formId prop
    form,            \* the loaded FormDefinition, NoForm for null
    formResponses,   \* the AnswerMap
    loading,
    submitting,
    error,           \* [kind, lines]: the error text shown
    success,         \* FormViewer's success text / FormFiller's customAlert.isOpen
    pendingFetches,  \* form ids of GET /forms/:id requests in flight
    pendingSubmits,  \* POST /forms/submit/:id requests in flight
    evalField,       \* the field a renderer evaluates
    evalResponses,   \* the answers it evaluates the field against
    evalVisible,     \* what each evaluator returned for them
    formDefinition,  \* FormBuilder: the form under construction
    showPreview,     \* FormBuilder: the preview panel is on
    previewResponses,\* FormBuilder: the AnswerMap of the preview
    renderPos,       \* the field a render pass is at, 0 when no pass was started
    renderVisible,   \* what the pass computed for the fields before renderPos
    userId,          \* FormBuilder: the userId state
    saving,          \* FormBuilder: a save is under way
    pendingSaves,    \* POST /forms/:userId requests in flight
    selectedBase,    \* FormBuilder: the base chosen in the base select
    selectedTable,   \* FormBuilder: the table chosen in the table select
    tables,          \* FormBuilder: the table list shown
    tableFields,     \* FormBuilder: the fields state, the available fields shown
    pendingTables,   \* GET /forms/tables/:userId/:baseId requests in flight
    pendingFields,   \* GET /forms/fields/:userId/:baseId/:tableId requests in flight
    dbForms,         \* server: the Form collection, form id -> creator
    apiRequest,      \* server: the request /api/forms handled last
    session,         \* server: req.session of the browser
    now,             \* server: Date.now(), in minutes
    dbUsers,         \* server: the User collection, airtableId -> stored paths
    exchanges,       \* Airtable: the codes POSTed to the token endpoint
    issued,          \* Airtable: account -> the access token of its latest grant
    oauthResponse,   \* server: what the OAuth route answered last
    airtableCall,    \* server: the outcome of the last getUserAccessTokenById
    isConnected,     \* connectDB: the module's isConnected flag
    readyState,      \* mongoose.connection.readyState
    connectCalls,    \* how often mongoose.connect was invoked
    handlerCount,    \* how often the connection event handlers were registered
    dbPc             \* where each request stands in ensureConnection

sessionVars == <<comp, formId, form, formResponses, loading, submitting, error,
                 success, pendingFetches, pendingSubmits>>
evalVars == <<evalField, evalResponses, evalVisible>>
builderVars == <<formDefinition, showPreview, previewResponses>>
renderVars == <<renderPos, renderVisible>>
saveVars == <<userId, saving, pendingSaves>>
pickerVars == <<selectedBase, selectedTable, tables, tableFields, pendingTables,
                pendingFields>>
apiVars == <<dbForms, apiRequest>>
oauthVars == <<session, now, dbUsers, exchanges, issued, oauthResponse,
               airtableCall>>
dbVars == <<isConnected, readyState, connectCalls, handlerCount, dbPc>>
serverVars == <<apiVars, oauthVars, dbVars>>
vars == <<comp, formId, form, formResponses, loading, submitting, error,
          success, pendingFetches, pendingSubmits,
          evalField, evalResponses, evalVisible,
          formDefinition, showPreview, previewResponses,
          renderPos, renderVisible,
          userId, saving, pendingSaves,
          selectedBase, selectedTable, tables, tableFields, pendingTables,
          pendingFields,
          dbForms, apiRequest,
          session, now, dbUsers, exchanges, issued, oauthResponse, airtableCall,
          isConnected, readyState, connectCalls, handlerCount, dbPc>>

NoError == [kind |-> "", lines |-> <<>>]

(***************************************************************************)
(* Submit validation.                                                      *)
(***************************************************************************)
\* isFieldVisible of the running component
isFieldVisible(c, field, responses) ==
    IF c = "FormViewer" THEN FormViewer_isFieldVisible(field, responses)
    ELSE FormFiller_isFieldVisible(field, responses)

\* the required check without its trim() clause
IsMissing_noTrim(value) ==
    \/ Falsy(value)
    \/ (IsArray(value) /\ Len(value.v) = 0)

\* !value || (Array.isArray(value) && value.length === 0)
\*        || (typeof value === 'string' && value.trim() === '')
IsMissing(value) ==
    \/ Falsy(value)
    \/ (IsArray(value) /\ Len(value.v) = 0)
    \/ (value.t = "string" /\ Trim(value.v) = <<>>)

\* form.fields.filter(field => isFieldVisible(field))
VisibleFields(c, f, responses) ==
    SelectSeq(f.fields, LAMBDA field : isFieldVisible(c, field, responses))

\* submitForm's validation with the visibility filter left out
ValidationErrors_allFields(c, f, responses) ==
    LET failing == SelectSeq(f.fields,
                       LAMBDA field : field.required
                                      /\ IsMissing(Lookup(responses, field.fieldId)))
    IN [i \in 1..Len(failing) |-> failing[i].label]

\* submitForm's validation stopping at the first failing field
ValidationErrors_failFast(c, f, responses) ==
    LET failing == SelectSeq(VisibleFields(c, f, responses),
                       LAMBDA field : field.required
                                      /\ IsMissing(Lookup(responses, field.fieldId)))
    IN [i \in 1..(IF Len(failing) > 0 THEN 1 ELSE 0) |-> failing[i].label]

\* submitForm's validationErrors: one line per visible required field whose
\* answer is missing, pushed in the order of form.fields
ValidationErrors(c, f, responses) ==
    LET failing == SelectSeq(VisibleFields(c, f, responses),
                       LAMBDA field : field.required
                                      /\ IsMissing(Lookup(responses, field.fieldId)))
    IN [i \in 1..Len(failing) |-> failing[i].label]

\* FormFiller's processedResponses: File arrays become attachment records
ProcessedResponses(responses) ==
    [k \in DOMAIN responses |->
        IF responses[k].t = "files" /\ Len(responses[k].v) > 0
        THEN Attachments(responses[k].v)
        ELSE responses[k]]

\* the body of the POST request: { data: ... }
SubmitData(c, responses) ==
    IF c = "FormViewer" THEN responses ELSE ProcessedResponses(responses)

(***************************************************************************)
(* A form-filling session (FormViewer / FormFiller).                       *)
(***************************************************************************)
\* GET /forms/:formId leaves, with the spinner on
StartFetch(id) ==
    /\ loading' = TRUE
    /\ error' = NoError
    /\ pendingFetches' = pendingFetches \cup {id}

\* FormViewer: typing into the Form ID input (setFormId)
\* FormFiller: the formId prop changes, and the effect on [formId] fetches
SetFormId(id) ==
    /\ comp \in Components
    /\ id # formId
    /\ formId' = id
    /\ IF comp = "FormFiller" /\ id # ""
       THEN StartFetch(id)
       ELSE UNCHANGED <<loading, error, pendingFetches>>
    /\ UNCHANGED <<comp, form, formResponses, submitting, success,
                   pendingSubmits, evalVars, builderVars, renderVars,
                   pickerVars, saveVars, serverVars>>

\* FormViewer: the Load Form button (disabled while !formId || loading)
FetchForm ==
    /\ comp = "FormViewer"
    /\ formId # ""
    /\ ~loading
    /\ StartFetch(formId)
    /\ UNCHANGED <<comp, formId, form, formResponses, submitting, success,
                   pendingSubmits, evalVars, builderVars, renderVars,
                   pickerVars, saveVars, serverVars>>

\* fetchForm after a 2xx response without its setFormResponses({})
FetchOk_keepAnswers(id) ==
    /\ id \in pendingFetches
    /\ id \in FormIds
    /\ pendingFetches' = pendingFetches \ {id}
    /\ form' = StoredForms[id]
    /\ loading' = FALSE
    /\ UNCHANGED <<comp, formId, formResponses, submitting, error, success,
                   pendingSubmits, evalVars, builderVars, renderVars,
                   pickerVars, saveVars, serverVars>>

\* fetchForm after a 2xx response: setForm(data.form); setFormResponses({})
FetchOk(id) ==
    /\ id \in pendingFetches
    /\ id \in FormIds
    /\ pendingFetches' = pendingFetches \ {id}
    /\ form' = StoredForms[id]
    /\ formResponses' = EmptyResponses
    /\ loading' = FALSE
    /\ UNCHANGED <<comp, formId, submitting, error, success, pendingSubmits,
                   evalVars, builderVars, renderVars,
                   pickerVars, saveVars, serverVars>>

\* fetchForm's catch: a network error or a non-2xx response
FetchFail(id) ==
    /\ id \in pendingFetches
    /\ pendingFetches' = pendingFetches \ {id}
    /\ error' = [kind |-> "fetch", lines |-> <<>>]
    /\ loading' = FALSE
    /\ UNCHANGED <<comp, formId, form, formResponses, submitting, success,
                   pendingSubmits, evalVars, builderVars, renderVars,
                   pickerVars, saveVars, serverVars>>

\* handleInputChange(fieldId, value) if hidden fields could be typed into
HandleInputChange_hiddenToo(fieldId, value) ==
    /\ form # NoForm
    /\ \E i \in 1..Len(form.fields) :
          /\ form.fields[i].fieldId = fieldId
          /\ value \in RenderedInputs(comp, form.fields[i], formResponses)
    /\ formResponses' = Spread(formResponses, fieldId, value)
    /\ UNCHANGED <<comp, formId, form, loading, submitting, error, success,
                   pendingFetches, pendingSubmits, evalVars, builderVars, renderVars,
                   pickerVars, saveVars, serverVars>>

\* handleInputChange(fieldId, value) called by the input of a rendered field;
\* a hidden field renders no input (FormViewer) or sits in a hidden div
\* (FormFiller)
HandleInputChange(fieldId, value) ==
    /\ form # NoForm
    /\ \E i \in 1..Len(form.fields) :
          /\ form.fields[i].fieldId = fieldId
          /\ isFieldVisible(comp, form.fields[i], formResponses)
          /\ value \in RenderedInputs(comp, form.fields[i], formResponses)
    /\ formResponses' = Spread(formResponses, fieldId, value)
    /\ UNCHANGED <<comp, formId, form, loading, submitting, error, success,
                   pendingFetches, pendingSubmits, evalVars, builderVars, renderVars,
                   pickerVars, saveVars, serverVars>>

\* submitForm without the return that follows setError
SubmitForm_noReturn ==
    /\ form # NoForm
    /\ ~submitting
    /\ submitting' = TRUE
    /\ error' = NoError
    /\ success' = IF comp = "FormViewer" THEN FALSE ELSE success
    /\ pendingSubmits' = pendingSubmits \cup
          {[formId |-> formId, data |-> SubmitData(comp, formResponses)]}
    /\ UNCHANGED <<comp, formId, form, formResponses, loading, pendingFetches,
                   evalVars, builderVars, renderVars,
                   pickerVars, saveVars, serverVars>>

\* submitForm up to its first await (the button is disabled while submitting)
SubmitForm ==
    /\ form # NoForm
    /\ ~submitting
    /\ LET validationErrors == ValidationErrors(comp, form, formResponses)
       IN IF Len(validationErrors) > 0
          THEN /\ error' = [kind |-> "validation", lines |-> validationErrors]
               /\ UNCHANGED <<submitting, success, pendingSubmits>>
          ELSE /\ submitting' = TRUE
               /\ error' = NoError
               /\ success' = IF comp = "FormViewer" THEN FALSE ELSE success
               /\ pendingSubmits' = pendingSubmits \cup
                     {[formId |-> formId,
                       data |-> SubmitData(comp, formResponses)]}
    /\ UNCHANGED <<comp, formId, form, formResponses, loading, pendingFetches,
                   evalVars, builderVars, renderVars,
                   pickerVars, saveVars, serverVars>>

\* submitForm after a 2xx response
SubmitOk(req) ==
    /\ req \in pendingSubmits
    /\ pendingSubmits' = pendingSubmits \ {req}
    /\ success' = TRUE
    /\ formResponses' = EmptyResponses
    /\ submitting' = FALSE
    /\ UNCHANGED <<comp, formId, form, loading, error, pendingFetches, evalVars, builderVars, renderVars,
                   pickerVars, saveVars, serverVars>>

\* submitForm's catch if it cleared the answers
SubmitFail_reset(req) ==
    /\ req \in pendingSubmits
    /\ pendingSubmits' = pendingSubmits \ {req}
    /\ error' = [kind |-> "submit", lines |-> <<>>]
    /\ formResponses' = EmptyResponses
    /\ submitting' = FALSE
    /\ UNCHANGED <<comp, formId, form, loading, success,
                   pendingFetches, evalVars, builderVars, renderVars,
                   pickerVars, saveVars, serverVars>>

\* submitForm's catch: a network error or a non-2xx response
SubmitFail(req) ==
    /\ req \in pendingSubmits
    /\ pendingSubmits' = pendingSubmits \ {req}
    /\ error' = [kind |-> "submit", lines |-> <<>>]
    /\ submitting' = FALSE
    /\ UNCHANGED <<comp, formId, form, formResponses, loading, success,
                   pendingFetches, evalVars, builderVars, renderVars,
                   pickerVars, saveVars, serverVars>>

\* FormFiller.closeAlert
CloseAlert ==
    /\ comp = "FormFiller"
    /\ success
    /\ success' = FALSE
    /\ UNCHANGED <<comp, formId, form, formResponses, loading, submitting, error,
                   pendingFetches, pendingSubmits, evalVars, builderVars, renderVars,
                   pickerVars, saveVars, serverVars>>

(***************************************************************************)
(* The form builder (the FormBuilder component).  The base and the table   *)
(* are selected and the table's fields are fetched.                        *)
(***************************************************************************)
\* the fields state: what GET /fields/:userId/:baseId/:tableId returned
AirtableFields ==
    <<[id |-> "A", name |-> "LabelA", type |-> "shortText", options |-> <<>>],
      [id |-> "B", name |-> "LabelB", type |-> "longText", options |-> <<>>]>>

\* what a user types into a rule's value input
RuleTypedValues == {<<>>, <<"x">>}

FormRuleCount ==
    LET RECURSIVE Count(_)
        Count(i) == IF i = 0 THEN 0
                    ELSE Len(formDefinition.fields[i].conditionalLogic.rules)
                         + Count(i - 1)
    IN Count(Len(formDefinition.fields))

\* fields.filter((_, i) => i !== index)
RemoveAt(q, index) ==
    [i \in 1..(Len(q) - 1) |-> IF i < index THEN q[i] ELSE q[i + 1]]

\* setFormDefinition(prev => ({...prev, fields}))
SetFields(fields) ==
    /\ comp = "FormBuilder"
    /\ formDefinition' = [formDefinition EXCEPT !.fields = fields]
    /\ UNCHANGED <<showPreview, previewResponses, sessionVars, evalVars, renderVars,
                   pickerVars, saveVars, serverVars>>

\* addField(field): the button of an available field; conditionalLogic is
\* {rules: []}, the match mode being the schema's default
AddField(field) ==
    /\ Len(formDefinition.fields) < MaxFields
    /\ SetFields(Append(formDefinition.fields,
                        Field(field.id, field.name, field.type, FALSE,
                              field.options, Logic("all", <<>>))))

\* updateField(index, {required}): the Required checkbox
UpdateField(index, required) ==
    /\ index \in 1..Len(formDefinition.fields)
    /\ required # formDefinition.fields[index].required
    /\ SetFields([formDefinition.fields EXCEPT ![index].required = required])

\* removeField(index)
RemoveField(index) ==
    /\ index \in 1..Len(formDefinition.fields)
    /\ SetFields(RemoveAt(formDefinition.fields, index))

\* addConditionalRule(fieldIndex)
AddConditionalRule(fieldIndex) ==
    /\ fieldIndex \in 1..Len(formDefinition.fields)
    /\ FormRuleCount < MaxFormRules
    /\ SetFields([formDefinition.fields EXCEPT
                     ![fieldIndex].conditionalLogic.rules =
                         Append(@, Rule("", "equals", Str(<<>>)))])

\* the options of a rule's trigger select that can be chosen: "Select
\* field..." and every field of the form but the one at the rule's own index
TriggerOptions(fieldIndex) ==
    {""} \cup {formDefinition.fields[i].fieldId :
                  i \in (1..Len(formDefinition.fields)) \ {fieldIndex}}

\* updateConditionalRule(fieldIndex, ruleIndex, {fieldId}): the trigger select
UpdateRuleTrigger(fieldIndex, ruleIndex, fieldId) ==
    /\ fieldIndex \in 1..Len(formDefinition.fields)
    /\ ruleIndex \in 1..Len(formDefinition.fields[fieldIndex].conditionalLogic.rules)
    /\ fieldId \in TriggerOptions(fieldIndex)
    /\ fieldId # formDefinition.fields[fieldIndex].conditionalLogic.rules[ruleIndex].fieldId
    /\ SetFields([formDefinition.fields EXCEPT
                     ![fieldIndex].conditionalLogic.rules[ruleIndex].fieldId = fieldId])

\* updateConditionalRule(fieldIndex, ruleIndex, {value}): the value input
UpdateRuleValue(fieldIndex, ruleIndex, text) ==
    /\ fieldIndex \in 1..Len(formDefinition.fields)
    /\ ruleIndex \in 1..Len(formDefinition.fields[fieldIndex].conditionalLogic.rules)
    /\ text # formDefinition.fields[fieldIndex].conditionalLogic.rules[ruleIndex].value.v
    /\ SetFields([formDefinition.fields EXCEPT
                     ![fieldIndex].conditionalLogic.rules[ruleIndex].value = Str(text)])

\* removeConditionalRule(fieldIndex, ruleIndex)
RemoveConditionalRule(fieldIndex, ruleIndex) ==
    /\ fieldIndex \in 1..Len(formDefinition.fields)
    /\ ruleIndex \in 1..Len(formDefinition.fields[fieldIndex].conditionalLogic.rules)
    /\ SetFields([formDefinition.fields EXCEPT
                     ![fieldIndex].conditionalLogic.rules = RemoveAt(@, ruleIndex)])

\* togglePreview; the button is rendered while the form has fields
TogglePreview ==
    /\ comp = "FormBuilder"
    /\ Len(formDefinition.fields) > 0
    /\ showPreview' = ~showPreview
    /\ previewResponses' = IF ~showPreview THEN EmptyResponses ELSE previewResponses
    /\ UNCHANGED <<formDefinition, sessionVars, evalVars, renderVars,
                   pickerVars, saveVars, serverVars>>

\* handlePreviewInputChange without the spread of the previous answers
HandlePreviewInputChange_onlyKey(fieldId, value) ==
    /\ comp = "FormBuilder"
    /\ showPreview
    /\ \E i \in 1..Len(formDefinition.fields) :
          /\ formDefinition.fields[i].fieldId = fieldId
          /\ ComponentBuilder_isFieldVisibleInPreview(formDefinition.fields[i],
                                                      previewResponses)
          /\ value \in RenderedInputs(comp, formDefinition.fields[i], previewResponses)
    /\ previewResponses' = [k \in {fieldId} |-> value]
    /\ UNCHANGED <<formDefinition, showPreview, sessionVars, evalVars, renderVars,
                   pickerVars, saveVars, serverVars>>

\* handlePreviewInputChange(fieldId, value) called by the input of a field
\* the preview panel shows
HandlePreviewInputChange(fieldId, value) ==
    /\ comp = "FormBuilder"
    /\ showPreview
    /\ \E i \in 1..Len(formDefinition.fields) :
          /\ formDefinition.fields[i].fieldId = fieldId
          /\ ComponentBuilder_isFieldVisibleInPreview(formDefinition.fields[i],
                                                      previewResponses)
          /\ value \in RenderedInputs(comp, formDefinition.fields[i], previewResponses)
    /\ previewResponses' = Spread(previewResponses, fieldId, value)
    /\ UNCHANGED <<formDefinition, showPreview, sessionVars, evalVars, renderVars,
                   pickerVars, saveVars, serverVars>>

(***************************************************************************)
(* A render pass of the filler: form.fields.map calls isFieldVisible for   *)
(* one field after the other.                                              *)
(***************************************************************************)
\* forms whose rules refer to their own field or to each other, and a form
\* without such a cycle
RenderForms ==
    {[id |-> "self",
      fields |-> <<Field("A", "LabelA", "shortText", FALSE, <<>>,
                         Logic("all", <<Rule("A", "equals", Str(<<"x">>))>>))>>],
     [id |-> "cycle",
      fields |-> <<Field("A", "LabelA", "shortText", FALSE, <<>>,
                         Logic("all", <<Rule("B", "equals", Str(<<"x">>))>>)),
                   Field("B", "LabelB", "shortText", FALSE, <<>>,
                         Logic("any", <<Rule("A", "equals", Str(<<"y">>))>>))>>],
     StoredForms["f1"]}

\* the answers a pass starts from: none, or answers that show both fields of
\* the form whose fields watch each other
RenderResponses ==
    {EmptyResponses,
     [k \in {"A", "B"} |-> IF k = "A" THEN Str(<<"y">>) ELSE Str(<<"x">>)]}

RenderDone == renderPos > Len(form.fields)

\* the positions of the fields the rules of a field name as triggers
TriggerPositions(f, field) ==
    {j \in 1..Len(f.fields) :
        \E r \in 1..Len(field.conditionalLogic.rules) :
           field.conditionalLogic.rules[r].fieldId = f.fields[j].fieldId}

\* the callback of form.fields.map if isFieldVisible evaluated the trigger
\* field's visibility before reading its answer
RenderField_reenter ==
    /\ renderPos \in 1..Len(form.fields)
    /\ LET triggers == TriggerPositions(form, form.fields[renderPos])
       IN IF triggers # {}
          THEN /\ renderPos' = CHOOSE j \in triggers : TRUE
               /\ UNCHANGED renderVisible
          ELSE /\ renderVisible' =
                     Append(SubSeq(renderVisible, 1, renderPos - 1),
                            isFieldVisible(comp, form.fields[renderPos],
                                           formResponses))
               /\ renderPos' = renderPos + 1
    /\ UNCHANGED <<sessionVars, evalVars, builderVars,
                   pickerVars, saveVars, serverVars>>

\* the callback of form.fields.map for the next field
RenderField ==
    /\ renderPos \in 1..Len(form.fields)
    /\ renderVisible' =
          Append(renderVisible,
                 isFieldVisible(comp, form.fields[renderPos], formResponses))
    /\ renderPos' = renderPos + 1
    /\ UNCHANGED <<sessionVars, evalVars, builderVars,
                   pickerVars, saveVars, serverVars>>

\* handleInputChange(fieldId, value) by the input of a field the finished
\* pass rendered visible; the state update starts the next pass
InputAndRerender(fieldId, value) ==
    /\ RenderDone
    /\ \E i \in 1..Len(form.fields) :
          /\ form.fields[i].fieldId = fieldId
          /\ renderVisible[i]
          /\ value \in RenderedInputs(comp, form.fields[i], formResponses)
    /\ ~SameTypeAndValue(Lookup(formResponses, fieldId), value)
    /\ formResponses' = Spread(formResponses, fieldId, value)
    /\ renderPos' = 1
    /\ renderVisible' = <<>>
    /\ UNCHANGED <<comp, formId, form, loading, submitting, error, success,
                   pendingFetches, pendingSubmits, evalVars, builderVars,
                   pickerVars, saveVars, serverVars>>

(***************************************************************************)
(* Rendering one field: every evaluator applied to a field definition and  *)
(* an AnswerMap.                                                           *)
(***************************************************************************)
EvalTriggerIds == {"", "A"}
EvalOperators == {"equals", "notEquals", "contains", "gt", "lt"}
EvalComparands == {Str(<<>>), Str(<<"x">>), Num(5)}
EvalRules ==
    {Rule(f, o, v) : f \in EvalTriggerIds, o \in EvalOperators, v \in EvalComparands}
EvalAnswers ==
    {Str(<<"x">>), Str(<<"5">>), Str(<<"y", "x">>), Num(5), Num(7), Bool(TRUE),
     Arr(<<"x">>)}

\* what the four renderers compute for a field
Render(field, responses) ==
    [FormViewer |-> FormViewer_isFieldVisible(field, responses),
     FormFiller |-> FormFiller_isFieldVisible(field, responses),
     AppBuilder |-> AppBuilder_isFieldVisibleInPreview(field, responses),
     ComponentBuilder |-> ComponentBuilder_isFieldVisibleInPreview(field, responses)]

\* the field is defined with one more rule
EvalAddRule(rule) ==
    /\ Len(evalField.conditionalLogic.rules) < MaxRules
    /\ evalField' = [evalField EXCEPT !.conditionalLogic.rules = Append(@, rule)]
    /\ evalVisible' = Render(evalField', evalResponses)
    /\ UNCHANGED <<evalResponses, sessionVars, builderVars, renderVars,
                   pickerVars, saveVars, serverVars>>

\* the field is defined with the other match mode
EvalSetMatch(match) ==
    /\ match # evalField.conditionalLogic.match
    /\ evalField' = [evalField EXCEPT !.conditionalLogic.match = match]
    /\ evalVisible' = Render(evalField', evalResponses)
    /\ UNCHANGED <<evalResponses, sessionVars, builderVars, renderVars,
                   pickerVars, saveVars, serverVars>>

\* the trigger field is answered, by a renderer that keeps showing what it
\* has shown once
EvalSetAnswer_keepShown(value) ==
    /\ evalResponses' = Spread(evalResponses, "A", value)
    /\ evalVisible' = [e \in DOMAIN evalVisible |->
                          evalVisible[e] \/ Render(evalField, evalResponses')[e]]
    /\ UNCHANGED <<evalField, sessionVars, builderVars, renderVars,
                   pickerVars, saveVars, serverVars>>

\* the trigger field is answered
EvalSetAnswer(value) ==
    /\ evalResponses' = Spread(evalResponses, "A", value)
    /\ evalVisible' = Render(evalField, evalResponses')
    /\ UNCHANGED <<evalField, sessionVars, builderVars, renderVars,
                   pickerVars, saveVars, serverVars>>

(***************************************************************************)
(* The form builder: choosing the base and the table.                      *)
(***************************************************************************)
\* the ids of the bases GET /bases/:userId returned
Bases == {"b1", "b2"}

\* what GET /tables/:userId/:baseId answers: the tables of the base
TablesOf(baseId) == IF baseId = "b1" THEN <<"t1", "t2">> ELSE <<"t3">>

\* what GET /fields/:userId/:baseId/:tableId answers: the fields of the table
FieldsOf(baseId, tableId) ==
    IF tableId = "t1" THEN AirtableFields
    ELSE <<[id |-> "C", name |-> "LabelC", type |-> "shortText", options |-> <<>>]>>

\* const canSelectBase = !!userId && bases.length > 0
canSelectBase == userId # "" /\ Bases # {}

\* const canSelectTable = !!selectedBase
canSelectTable == selectedBase # ""

\* fetchTables(baseId): the request leaves unless a guard returns
fetchTables(baseId) ==
    IF userId = "" \/ baseId = ""
    THEN UNCHANGED <<loading, error, pendingTables>>
    ELSE /\ loading' = TRUE
         /\ error' = NoError
         /\ pendingTables' = Append(pendingTables, baseId)

\* fetchFields(tableId): the base of the request is the selectedBase of the
\* render the handler was created in
fetchFields(tableId) ==
    IF userId = "" \/ selectedBase = "" \/ tableId = ""
    THEN UNCHANGED <<loading, error, pendingFields>>
    ELSE /\ loading' = TRUE
         /\ error' = NoError
         /\ pendingFields' = Append(pendingFields,
                                    [baseId |-> selectedBase, tableId |-> tableId])

\* handleBaseSelect(baseId): the base select changes
handleBaseSelect(baseId) ==
    /\ comp = "FormBuilder"
    /\ canSelectBase
    /\ baseId # selectedBase
    /\ Len(pendingTables) < MaxPending
    /\ selectedBase' = baseId
    /\ selectedTable' = ""
    /\ tables' = <<>>
    /\ tableFields' = <<>>
    /\ formDefinition' = [formDefinition EXCEPT !.airtableBaseId = baseId,
                                                !.airtableTableId = ""]
    /\ fetchTables(baseId)
    /\ UNCHANGED <<comp, formId, form, formResponses, submitting, success,
                   pendingFetches, pendingSubmits, showPreview, previewResponses,
                   pendingFields, evalVars, renderVars, saveVars, serverVars>>

\* handleTableSelect(tableId): the table select changes; its options are the
\* tables state
handleTableSelect(tableId) ==
    /\ comp = "FormBuilder"
    /\ canSelectBase
    /\ canSelectTable
    /\ tableId \in SeqRange(tables) \cup {""}
    /\ tableId # selectedTable
    /\ Len(pendingFields) < MaxPending
    /\ selectedTable' = tableId
    /\ tableFields' = <<>>
    /\ formDefinition' = [formDefinition EXCEPT !.airtableTableId = tableId]
    /\ fetchFields(tableId)
    /\ UNCHANGED <<comp, formId, form, formResponses, submitting, success,
                   pendingFetches, pendingSubmits, showPreview, previewResponses,
                   selectedBase, tables, pendingTables,
                   evalVars, renderVars, saveVars, serverVars>>

\* fetchTables after the await: the response arrived and was ok
TablesOk(i) ==
    /\ i \in 1..Len(pendingTables)
    /\ tables' = TablesOf(pendingTables[i])
    /\ loading' = FALSE
    /\ pendingTables' = RemoveAt(pendingTables, i)
    /\ UNCHANGED <<comp, formId, form, formResponses, submitting, error, success,
                   pendingFetches, pendingSubmits, builderVars,
                   selectedBase, selectedTable, tableFields, pendingFields,
                   evalVars, renderVars, saveVars, serverVars>>

\* fetchTables after the await: the catch branch
TablesFail(i) ==
    /\ i \in 1..Len(pendingTables)
    /\ error' = [kind |-> "tables", lines |-> <<>>]
    /\ loading' = FALSE
    /\ pendingTables' = RemoveAt(pendingTables, i)
    /\ UNCHANGED <<comp, formId, form, formResponses, submitting, success,
                   pendingFetches, pendingSubmits, builderVars,
                   selectedBase, selectedTable, tables, tableFields, pendingFields,
                   evalVars, renderVars, saveVars, serverVars>>

\* fetchFields after the await: the response arrived and was ok
FieldsOk(i) ==
    /\ i \in 1..Len(pendingFields)
    /\ tableFields' = FieldsOf(pendingFields[i].baseId, pendingFields[i].tableId)
    /\ loading' = FALSE
    /\ pendingFields' = RemoveAt(pendingFields, i)
    /\ UNCHANGED <<comp, formId, form, formResponses, submitting, error, success,
                   pendingFetches, pendingSubmits, builderVars,
                   selectedBase, selectedTable, tables, pendingTables,
                   evalVars, renderVars, saveVars, serverVars>>

\* fetchFields after the await: the catch branch
FieldsFail(i) ==
    /\ i \in 1..Len(pendingFields)
    /\ error' = [kind |-> "fields", lines |-> <<>>]
    /\ loading' = FALSE
    /\ pendingFields' = RemoveAt(pendingFields, i)
    /\ UNCHANGED <<comp, formId, form, formResponses, submitting, success,
                   pendingFetches, pendingSubmits, builderVars,
                   selectedBase, selectedTable, tables, tableFields, pendingTables,
                   evalVars, renderVars, saveVars, serverVars>>

(***************************************************************************)
(* The form builder: saving the form.                                      *)
(***************************************************************************)
\* what a user types into the form name input
TypedNames == {<<>>, <<" ">>, <<"n">>}

\* what a user types into the user id input
TypedUserIds == {"", "u1"}

\* the form name input: setFormDefinition(prev => ({...prev, name}))
SetName(name) ==
    /\ comp = "FormBuilder"
    /\ selectedTable # ""
    /\ name # formDefinition.name
    /\ formDefinition' = [formDefinition EXCEPT !.name = name]
    /\ UNCHANGED <<showPreview, previewResponses, sessionVars, evalVars, renderVars,
                   pickerVars, saveVars, serverVars>>

\* the user id input: setUserId(e.target.value)
SetUserId(id) ==
    /\ comp = "FormBuilder"
    /\ id # userId
    /\ userId' = id
    /\ UNCHANGED <<saving, pendingSaves, sessionVars, evalVars, builderVars,
                   renderVars, pickerVars, serverVars>>

\* !rule.fieldId.trim(): the ids are the values of the trigger select's options
IsBlankId(id) == id = ""

\* what saveForm's loop pushes for one rule
RuleErrors(index, ruleIndex, rule) ==
    IF rule.fieldId # "" /\ ~StrictEquals(rule.value, Str(<<>>))
    THEN (IF IsBlankId(rule.fieldId)
          THEN <<[field |-> index, rule |-> ruleIndex, missing |-> "trigger field"]>>
          ELSE <<>>)
         \o (IF StrictEquals(rule.value, Str(<<>>))
             THEN <<[field |-> index, rule |-> ruleIndex, missing |-> "value"]>>
             ELSE <<>>)
    ELSE <<>>

\* saveForm's validationErrors after the two forEach loops
SaveValidationErrors(fields) ==
    LET RECURSIVE OfRules(_, _, _)
        OfRules(index, rules, j) ==
            IF j > Len(rules) THEN <<>>
            ELSE RuleErrors(index, j, rules[j]) \o OfRules(index, rules, j + 1)
        RECURSIVE OfFields(_)
        OfFields(i) ==
            IF i > Len(fields) THEN <<>>
            ELSE OfRules(i, fields[i].conditionalLogic.rules, 1) \o OfFields(i + 1)
    IN OfFields(1)

\* saveForm, called by the Save Form button; the button is rendered while a
\* table is selected and the form has fields, and is disabled while a save is
\* under way or the name is blank
SaveForm ==
    /\ comp = "FormBuilder"
    /\ selectedTable # ""
    /\ Len(formDefinition.fields) > 0
    /\ ~saving
    /\ Trim(formDefinition.name) # <<>>
    /\ IF userId = "" \/ Trim(formDefinition.name) = <<>>
       THEN /\ error' = [kind |-> "name", lines |-> <<>>]
            /\ UNCHANGED <<saving, pendingSaves>>
       ELSE IF Len(formDefinition.fields) = 0
       THEN /\ error' = [kind |-> "fields", lines |-> <<>>]
            /\ UNCHANGED <<saving, pendingSaves>>
       ELSE LET validationErrors == SaveValidationErrors(formDefinition.fields)
            IN IF Len(validationErrors) > 0
               THEN /\ error' = [kind |-> "validation", lines |-> validationErrors]
                    /\ UNCHANGED <<saving, pendingSaves>>
               ELSE /\ saving' = TRUE
                    /\ error' = NoError
                    /\ pendingSaves' = pendingSaves \cup
                                          {[userId |-> userId, body |-> formDefinition]}
    /\ UNCHANGED <<comp, formId, form, formResponses, loading, submitting, success,
                   pendingFetches, pendingSubmits, userId, evalVars, builderVars,
                   renderVars, pickerVars, serverVars>>

\* saveForm after the await: the response was ok
SaveOk(req) ==
    /\ req \in pendingSaves
    /\ pendingSaves' = pendingSaves \ {req}
    /\ success' = TRUE
    /\ formDefinition' = [name |-> <<>>, airtableBaseId |-> "",
                          airtableTableId |-> "", fields |-> <<>>]
    /\ selectedBase' = ""
    /\ selectedTable' = ""
    /\ tableFields' = <<>>
    /\ tables' = <<>>
    /\ showPreview' = FALSE
    /\ previewResponses' = EmptyResponses
    /\ saving' = FALSE
    /\ UNCHANGED <<comp, formId, form, formResponses, loading, submitting, error,
                   pendingFetches, pendingSubmits, userId, pendingTables,
                   pendingFields, evalVars, renderVars, serverVars>>

\* saveForm after the await: the catch branch
SaveFail(req) ==
    /\ req \in pendingSaves
    /\ pendingSaves' = pendingSaves \ {req}
    /\ error' = [kind |-> "save", lines |-> <<>>]
    /\ saving' = FALSE
    /\ UNCHANGED <<comp, formId, form, formResponses, loading, submitting, success,
                   pendingFetches, pendingSubmits, userId, evalVars, builderVars,
                   renderVars, pickerVars, serverVars>>

(***************************************************************************)
(* The server: the routes of /api/forms that create, read and delete a     *)
(* stored form.                                                            *)
(***************************************************************************)
\* the users of the User collection the requests come from
ApiUsers == {"u1", "u2"}

\* the ObjectIds a saved form can get
FormKeys == 1..MaxForms

NoRequest == [method |-> "", requester |-> "", formId |-> 0, status |-> 0]

\* POST /:userId sent by requester with a body that has or lacks name,
\* airtableBaseId, airtableTableId and a fields array; the creator is the
\* userId of the path
CreateForm(requester, pathUserId, complete) ==
    \E id \in FormKeys \ DOMAIN dbForms :
       /\ IF complete
          THEN /\ dbForms' = [k \in DOMAIN dbForms \cup {id} |->
                                 IF k = id THEN pathUserId ELSE dbForms[k]]
               /\ apiRequest' = [method |-> "POST", requester |-> requester,
                                 formId |-> id, status |-> 201]
          ELSE /\ dbForms' = dbForms
               /\ apiRequest' = [method |-> "POST", requester |-> requester,
                                 formId |-> 0, status |-> 400]
       /\ UNCHANGED <<sessionVars, evalVars, builderVars, renderVars, pickerVars,
                      saveVars, oauthVars, dbVars>>

\* GET /:formId sent by requester
GetForm(requester, id) ==
    /\ apiRequest' = [method |-> "GET", requester |-> requester, formId |-> id,
                      status |-> IF id \in DOMAIN dbForms THEN 200 ELSE 404]
    /\ UNCHANGED <<dbForms, sessionVars, evalVars, builderVars, renderVars,
                   pickerVars, saveVars, oauthVars, dbVars>>

\* DELETE /:formId sent by requester: Form.findByIdAndDelete(formId); the
\* request names the form and nothing else
DeleteForm(requester, id) ==
    /\ IF id \in DOMAIN dbForms
       THEN /\ dbForms' = [k \in DOMAIN dbForms \ {id} |-> dbForms[k]]
            /\ apiRequest' = [method |-> "DELETE", requester |-> requester,
                              formId |-> id, status |-> 200]
       ELSE /\ dbForms' = dbForms
            /\ apiRequest' = [method |-> "DELETE", requester |-> requester,
                              formId |-> id, status |-> 404]
    /\ UNCHANGED <<sessionVars, evalVars, builderVars, renderVars, pickerVars,
                   saveVars, oauthVars, dbVars>>

(***************************************************************************)
(* The server: the Airtable OAuth flow.                                    *)
(***************************************************************************)
\* the values crypto.randomBytes(32).toString('hex') can give
OAuthStates == {"s1", "s2"}

\* the lifetime of a state, 10 * 60 * 1000 ms, in minutes
StateTTL == 10

\* how far a step moves the clock, in minutes
TickStep == 5

\* req.session without oauthState and oauthStateExpiry
NoSession == [oauthState |-> "", oauthStateExpiry |-> 0]

NoResponse ==
    [route |-> "", code |-> "", state |-> "", error |-> "", status |-> 0, to |-> ""]

NoCall == [userId |-> "", status |-> 0, token |-> ""]

\* the Airtable accounts (userProfile.id); a user's _id is named after it
Accounts == {"a1"}

\* the access tokens Airtable issues
Tokens == {"T1", "T2"}

\* the paths of userSchema that hold the identity and the tokens
UserPaths == {"airtableId", "accessToken", "refreshToken"}

\* the paths among them that are required
UserRequired == {"airtableId", "accessToken", "refreshToken"}

\* a document built from or assigned an object: the schema is strict, paths
\* it does not declare are not part of the document that is saved
Strict(obj) == [p \in DOMAIN obj \cap UserPaths |-> obj[p]]

\* user.path = value for every path of updates
Assign(doc, updates) ==
    [p \in DOMAIN doc \cup DOMAIN updates |->
        IF p \in DOMAIN updates THEN updates[p] ELSE doc[p]]

\* save() validates the required paths
Valid(doc) == \A p \in UserRequired : p \in DOMAIN doc /\ doc[p] # ""

\* a user document that conforms to userSchema
SchemaUser(account) ==
    [airtableId |-> account, accessToken |-> "T0", refreshToken |-> "R0"]

\* time passes
Tick ==
    /\ now + TickStep <= MaxNow
    /\ now' = now + TickStep
    /\ UNCHANGED <<session, dbUsers, exchanges, issued, oauthResponse, airtableCall,
                   sessionVars, evalVars, builderVars, renderVars, pickerVars,
                   saveVars, apiVars, dbVars>>

\* GET /api/oauth/airtable: a new state is stored in the session
GetAirtable(state) ==
    /\ session' = [oauthState |-> state, oauthStateExpiry |-> now + StateTTL]
    /\ oauthResponse' = [NoResponse EXCEPT !.route = "airtable", !.status = 302,
                                           !.to = "airtable"]
    /\ UNCHANGED <<now, dbUsers, exchanges, issued, airtableCall,
                   sessionVars, evalVars, builderVars, renderVars, pickerVars,
                   saveVars, apiVars, dbVars>>

\* GET /api/oauth/auth: the same, the URL is answered as JSON
GetAuth(state) ==
    /\ session' = [oauthState |-> state, oauthStateExpiry |-> now + StateTTL]
    /\ oauthResponse' = [NoResponse EXCEPT !.route = "auth", !.status = 200]
    /\ UNCHANGED <<now, dbUsers, exchanges, issued, airtableCall,
                   sessionVars, evalVars, builderVars, renderVars, pickerVars,
                   saveVars, apiVars, dbVars>>

\* a comparison of the states that accepts whatever state the query carries
StateDiffers_never(state) == FALSE

\* state !== req.session.oauthState
StateDiffers(state) == state # session.oauthState

\* GET /api/oauth/airtable/callback?code&state&error.  granted, token and
\* account are Airtable's part: whether the token endpoint accepts the code,
\* the access token it issues and the account whoami reports
Callback(code, state, err, granted, token, account) ==
    LET answer(status, to) ==
            [route |-> "callback", code |-> code, state |-> state, error |-> err,
             status |-> status, to |-> to]
        refused(status, to) ==
            /\ oauthResponse' = answer(status, to)
            /\ UNCHANGED <<session, dbUsers, exchanges, issued>>
        user == IF account \in DOMAIN dbUsers
                THEN Strict(Assign(dbUsers[account],
                                   [airtableAccessToken |-> token,
                                    refreshToken |-> "R1"]))
                ELSE Strict([airtableId |-> account,
                             airtableAccessToken |-> token,
                             refreshToken |-> "R1"])
    IN /\ exchanges < MaxExchanges
       /\ IF err # "" THEN refused(302, "error")
          ELSE IF code = "" THEN refused(400, "")
          ELSE IF state = "" THEN refused(400, "")
          ELSE IF session.oauthState = "" THEN refused(400, "")
          ELSE IF StateDiffers(state) THEN refused(400, "")
          ELSE IF now > session.oauthStateExpiry
          THEN /\ session' = NoSession
               /\ oauthResponse' = answer(400, "")
               /\ UNCHANGED <<dbUsers, exchanges, issued>>
          ELSE /\ session' = NoSession
               /\ exchanges' = exchanges + 1
               /\ IF granted /\ Valid(user)
                  THEN /\ dbUsers' = [a \in DOMAIN dbUsers \cup {account} |->
                                         IF a = account THEN user ELSE dbUsers[a]]
                       /\ issued' = [issued EXCEPT ![account] = token]
                       /\ oauthResponse' = answer(302, "userId")
                  ELSE /\ oauthResponse' = answer(302, "error")
                       /\ UNCHANGED <<dbUsers, issued>>
       /\ UNCHANGED <<now, airtableCall, sessionVars, evalVars, builderVars,
                      renderVars, pickerVars, saveVars, apiVars, dbVars>>

\* getUserAccessTokenById(userId), the first step of every Airtable call
getUserAccessTokenById(id) ==
    /\ airtableCall' =
          IF /\ id \in DOMAIN dbUsers
             /\ "airtableAccessToken" \in DOMAIN dbUsers[id]
             /\ dbUsers[id]["airtableAccessToken"] # ""
          THEN [userId |-> id, status |-> 200,
                token |-> dbUsers[id]["airtableAccessToken"]]
          ELSE [userId |-> id, status |-> 404, token |-> ""]
    /\ UNCHANGED <<session, now, dbUsers, exchanges, issued, oauthResponse,
                   sessionVars, evalVars, builderVars, renderVars, pickerVars,
                   saveVars, apiVars, dbVars>>

(***************************************************************************)
(* The server: the connection to MongoDB.                                  *)
(***************************************************************************)
\* the requests that need the database
Requests == 1..MaxRequests

\* connectToDatabase up to its await: the cached connection is returned, or
\* mongoose.connect is invoked
connectToDatabase(r) ==
    IF isConnected /\ readyState = 1
    THEN /\ dbPc' = [dbPc EXCEPT ![r] = "done"]
         /\ UNCHANGED <<readyState, connectCalls>>
    ELSE /\ connectCalls' = connectCalls + 1
         /\ readyState' = IF readyState = 1 THEN 1 ELSE 2
         /\ dbPc' = [dbPc EXCEPT ![r] = "connecting"]

\* a request calls ensureConnection()
EnsureConnection(r) ==
    /\ dbPc[r] = "idle"
    /\ IF readyState # 1
       THEN connectToDatabase(r)
       ELSE /\ dbPc' = [dbPc EXCEPT ![r] = "done"]
            /\ UNCHANGED <<readyState, connectCalls>>
    /\ UNCHANGED <<isConnected, handlerCount, sessionVars, evalVars, builderVars,
                   renderVars, pickerVars, saveVars, apiVars, oauthVars>>

\* a caller calls connectToDatabase() itself
ConnectToDatabase(r) ==
    /\ dbPc[r] = "idle"
    /\ connectToDatabase(r)
    /\ UNCHANGED <<isConnected, handlerCount, sessionVars, evalVars, builderVars,
                   renderVars, pickerVars, saveVars, apiVars, oauthVars>>

\* connectToDatabase after the await: mongoose.connect resolved
ConnectResolved(r) ==
    /\ dbPc[r] = "connecting"
    /\ readyState' = 1
    /\ isConnected' = TRUE
    /\ handlerCount' = handlerCount + 1
    /\ dbPc' = [dbPc EXCEPT ![r] = "done"]
    /\ UNCHANGED <<connectCalls, sessionVars, evalVars, builderVars, renderVars,
                   pickerVars, saveVars, apiVars, oauthVars>>

\* connectToDatabase after the await: mongoose.connect rejected, the catch
\* branch; no connection was made
ConnectRejected(r) ==
    /\ dbPc[r] = "connecting"
    /\ readyState # 1
    /\ isConnected' = FALSE
    /\ readyState' = IF \E q \in Requests \ {r} : dbPc[q] = "connecting"
                     THEN 2 ELSE 0
    /\ dbPc' = [dbPc EXCEPT ![r] = "failed"]
    /\ UNCHANGED <<connectCalls, handlerCount, sessionVars, evalVars, builderVars,
                   renderVars, pickerVars, saveVars, apiVars, oauthVars>>

(***************************************************************************)
(* Specifications.                                                         *)
(***************************************************************************)
EvalIdle ==
    /\ evalField = Field("C", "LabelC", "shortText", FALSE, <<>>, Logic("all", <<>>))
    /\ evalResponses = EmptyResponses
    /\ evalVisible = Render(evalField, evalResponses)

SessionIdle ==
    /\ formId = ""
    /\ form = NoForm
    /\ formResponses = EmptyResponses
    /\ loading = FALSE
    /\ submitting = FALSE
    /\ error = NoError
    /\ success = FALSE
    /\ pendingFetches = {}
    /\ pendingSubmits = {}

\* FormBuilder's initial state
BuilderIdle ==
    /\ formDefinition = [name |-> <<>>, airtableBaseId |-> "",
                         airtableTableId |-> "", fields |-> <<>>]
    /\ showPreview = FALSE
    /\ previewResponses = EmptyResponses

RenderIdle ==
    /\ renderPos = 0
    /\ renderVisible = <<>>

\* FormBuilder before a user id was entered
SaveIdle ==
    /\ userId = ""
    /\ saving = FALSE
    /\ pendingSaves = {}

\* FormBuilder before a base was chosen
PickerIdle ==
    /\ selectedBase = ""
    /\ selectedTable = ""
    /\ tables = <<>>
    /\ tableFields = <<>>
    /\ pendingTables = <<>>
    /\ pendingFields = <<>>

ApiIdle ==
    /\ dbForms = <<>>
    /\ apiRequest = NoRequest

OAuthIdle ==
    /\ session = NoSession
    /\ now = 0
    /\ dbUsers = <<>>
    /\ exchanges = 0
    /\ issued = [a \in Accounts |-> ""]
    /\ oauthResponse = NoResponse
    /\ airtableCall = NoCall

DbIdle ==
    /\ isConnected = FALSE
    /\ readyState = 0
    /\ connectCalls = 0
    /\ handlerCount = 0
    /\ dbPc = [r \in Requests |-> "idle"]

ServerIdle ==
    /\ ApiIdle
    /\ OAuthIdle
    /\ DbIdle

\* the components a session can be of
Mounted == Components \cup {"FormBuilder"}

Init ==
    /\ comp \in Mounted
    /\ SessionIdle
    /\ EvalIdle
    /\ BuilderIdle
    /\ SaveIdle
    /\ PickerIdle
    /\ ServerIdle
    /\ RenderIdle

Next ==
    \/ \E id \in FormIds \cup {""} : SetFormId(id)
    \/ FetchForm
    \/ \E id \in FormIds : FetchOk(id)
    \/ \E id \in FormIds : FetchFail(id)
    \/ \E fieldId \in FieldIdsOf(form) :
          \E value \in UNION {RenderedInputs(comp, form.fields[i], formResponses) :
                                  i \in 1..Len(form.fields)} :
             HandleInputChange(fieldId, value)
    \/ SubmitForm
    \/ \E req \in pendingSubmits : SubmitOk(req)
    \/ \E req \in pendingSubmits : SubmitFail(req)
    \/ CloseAlert
    \/ \E i \in 1..Len(AirtableFields) : AddField(AirtableFields[i])
    \/ \E index \in 1..MaxFields, required \in BOOLEAN : UpdateField(index, required)
    \/ \E index \in 1..MaxFields : RemoveField(index)
    \/ \E fieldIndex \in 1..MaxFields : AddConditionalRule(fieldIndex)
    \/ \E fieldIndex \in 1..MaxFields, ruleIndex \in 1..MaxFormRules :
          \E fieldId \in {"", "A", "B"} :
             UpdateRuleTrigger(fieldIndex, ruleIndex, fieldId)
    \/ \E fieldIndex \in 1..MaxFields, ruleIndex \in 1..MaxFormRules :
          \E text \in RuleTypedValues : UpdateRuleValue(fieldIndex, ruleIndex, text)
    \/ \E fieldIndex \in 1..MaxFields, ruleIndex \in 1..MaxFormRules :
          RemoveConditionalRule(fieldIndex, ruleIndex)
    \/ TogglePreview
    \/ \E fieldId \in {"A", "B"}, text \in TypedTexts :
          HandlePreviewInputChange(fieldId, Str(text))

Spec == Init /\ [][Next]_vars

InitEval ==
    /\ comp = "FormViewer"
    /\ SessionIdle
    /\ EvalIdle
    /\ BuilderIdle
    /\ SaveIdle
    /\ PickerIdle
    /\ ServerIdle
    /\ RenderIdle

NextEval ==
    \/ \E rule \in EvalRules : EvalAddRule(rule)
    \/ \E match \in {"all", "any"} : EvalSetMatch(match)
    \/ \E value \in EvalAnswers : EvalSetAnswer(value)

SpecEval == InitEval /\ [][NextEval]_vars

\* any AnswerMap of the FormResponse type
\* ({[fieldId]: string | string[] | number | boolean | File[]})
ResponseValues ==
    {Str(<<>>), Str(<<" ">>), Str(<<"x">>), Num(0), Num(7), Bool(FALSE),
     Bool(TRUE), Arr(<<>>), Arr(<<"opt1", "opt2">>), Files(<<"doc">>)}

ResponseMaps ==
    UNION {[keys -> ResponseValues] : keys \in SUBSET {"A", "B"}}

\* submitForm applied to a loaded form and an arbitrary AnswerMap
InitSubmit ==
    /\ comp \in Components
    /\ formId \in FormIds
    /\ form = StoredForms[formId]
    /\ formResponses \in ResponseMaps
    /\ loading = FALSE
    /\ submitting = FALSE
    /\ error = NoError
    /\ success = FALSE
    /\ pendingFetches = {}
    /\ pendingSubmits = {}
    /\ EvalIdle
    /\ BuilderIdle
    /\ SaveIdle
    /\ PickerIdle
    /\ ServerIdle
    /\ RenderIdle

NextSubmit ==
    \/ SubmitForm
    \/ \E req \in pendingSubmits : SubmitOk(req)
    \/ \E req \in pendingSubmits : SubmitFail(req)

SpecSubmit == InitSubmit /\ [][NextSubmit]_vars

\* the request of a submission settles: the fetch resolves or rejects
SubmitSettles ==
    \E req \in pendingSubmits : SubmitOk(req) \/ SubmitFail(req)

\* submitForm with requests that settle
SpecSubmitFair == SpecSubmit /\ WF_vars(SubmitSettles)

\* the render passes of a loaded form, cyclic forms included
InitRender ==
    /\ comp \in Components
    /\ form \in RenderForms
    /\ formId = form.id
    /\ formResponses \in RenderResponses
    /\ loading = FALSE
    /\ submitting = FALSE
    /\ error = NoError
    /\ success = FALSE
    /\ pendingFetches = {}
    /\ pendingSubmits = {}
    /\ EvalIdle
    /\ BuilderIdle
    /\ SaveIdle
    /\ PickerIdle
    /\ ServerIdle
    /\ renderPos = 1
    /\ renderVisible = <<>>

NextRender ==
    \/ RenderField
    \/ \E fieldId \in FieldIdsOf(form), text \in TypedTexts :
          InputAndRerender(fieldId, Str(text))

\* a filler session on a loaded form, cyclic forms included, from the empty
\* AnswerMap
InitFill ==
    /\ comp \in Components
    /\ form \in RenderForms
    /\ formId = form.id
    /\ formResponses = EmptyResponses
    /\ loading = FALSE
    /\ submitting = FALSE
    /\ error = NoError
    /\ success = FALSE
    /\ pendingFetches = {}
    /\ pendingSubmits = {}
    /\ EvalIdle
    /\ BuilderIdle
    /\ SaveIdle
    /\ PickerIdle
    /\ ServerIdle
    /\ RenderIdle

NextFill ==
    \/ \E fieldId \in FieldIdsOf(form), text \in TypedTexts :
          HandleInputChange(fieldId, Str(text))
    \/ SubmitForm
    \/ \E req \in pendingSubmits : SubmitOk(req)
    \/ \E req \in pendingSubmits : SubmitFail(req)

SpecFill == InitFill /\ [][NextFill]_vars

\* rendering is synchronous code: a pass that has started runs on
SpecRender == InitRender /\ [][NextRender]_vars /\ WF_vars(RenderField)

\* FormBuilder with a user id entered, base b1 and table t1 chosen and their
\* tables and fields fetched
PickerReady ==
    /\ selectedBase = "b1"
    /\ selectedTable = "t1"
    /\ tables = TablesOf("b1")
    /\ tableFields = FieldsOf("b1", "t1")
    /\ pendingTables = <<>>
    /\ pendingFields = <<>>

\* the builder from the choice of a table to the save of the form
InitSave ==
    /\ comp = "FormBuilder"
    /\ SessionIdle
    /\ EvalIdle
    /\ formDefinition = [name |-> <<>>, airtableBaseId |-> "b1",
                         airtableTableId |-> "t1", fields |-> <<>>]
    /\ showPreview = FALSE
    /\ previewResponses = EmptyResponses
    /\ userId = "u1"
    /\ saving = FALSE
    /\ pendingSaves = {}
    /\ PickerReady
    /\ ServerIdle
    /\ RenderIdle

NextSave ==
    \/ \E name \in TypedNames : SetName(name)
    \/ \E id \in TypedUserIds : SetUserId(id)
    \/ \E field \in SeqRange(tableFields) : AddField(field)
    \/ \E index \in 1..MaxFields : RemoveField(index)
    \/ \E fieldIndex \in 1..MaxFields : AddConditionalRule(fieldIndex)
    \/ \E fieldIndex \in 1..MaxFields, ruleIndex \in 1..MaxFormRules,
          fieldId \in {"", "A", "B"} :
          UpdateRuleTrigger(fieldIndex, ruleIndex, fieldId)
    \/ \E fieldIndex \in 1..MaxFields, ruleIndex \in 1..MaxFormRules,
          text \in RuleTypedValues :
          UpdateRuleValue(fieldIndex, ruleIndex, text)
    \/ SaveForm
    \/ \E req \in pendingSaves : SaveOk(req)
    \/ \E req \in pendingSaves : SaveFail(req)

SpecSave == InitSave /\ [][NextSave]_vars

\* the builder with a user id entered and the bases fetched
InitSelect ==
    /\ comp = "FormBuilder"
    /\ SessionIdle
    /\ EvalIdle
    /\ BuilderIdle
    /\ userId = "u1"
    /\ saving = FALSE
    /\ pendingSaves = {}
    /\ PickerIdle
    /\ ServerIdle
    /\ RenderIdle

NextSelect ==
    \/ \E baseId \in Bases \cup {""} : handleBaseSelect(baseId)
    \/ \E tableId \in {"", "t1", "t2", "t3"} : handleTableSelect(tableId)
    \/ \E i \in 1..MaxPending : TablesOk(i)
    \/ \E i \in 1..MaxPending : TablesFail(i)
    \/ \E i \in 1..MaxPending : FieldsOk(i)
    \/ \E i \in 1..MaxPending : FieldsFail(i)

SpecSelect == InitSelect /\ [][NextSelect]_vars

\* the requests to /api/forms of two users
InitApi ==
    /\ comp = "FormBuilder"
    /\ SessionIdle
    /\ EvalIdle
    /\ BuilderIdle
    /\ SaveIdle
    /\ PickerIdle
    /\ ServerIdle
    /\ RenderIdle

NextApi ==
    \/ \E requester \in ApiUsers, pathUserId \in ApiUsers, complete \in BOOLEAN :
          CreateForm(requester, pathUserId, complete)
    \/ \E requester \in ApiUsers, id \in FormKeys : GetForm(requester, id)
    \/ \E requester \in ApiUsers, id \in FormKeys : DeleteForm(requester, id)

SpecApi == InitApi /\ [][NextApi]_vars

\* the OAuth routes and the Airtable calls, on an empty User collection or on
\* one that holds a user
InitOAuth ==
    /\ comp = "FormBuilder"
    /\ SessionIdle
    /\ EvalIdle
    /\ BuilderIdle
    /\ SaveIdle
    /\ PickerIdle
    /\ ApiIdle
    /\ session = NoSession
    /\ now = 0
    /\ dbUsers \in {<<>>, [a \in Accounts |-> SchemaUser(a)]}
    /\ exchanges = 0
    /\ issued = [a \in Accounts |-> ""]
    /\ oauthResponse = NoResponse
    /\ airtableCall = NoCall
    /\ DbIdle
    /\ RenderIdle

NextOAuth ==
    \/ Tick
    \/ \E state \in OAuthStates : GetAirtable(state)
    \/ \E state \in OAuthStates : GetAuth(state)
    \/ \E code \in {"", "c1"}, state \in OAuthStates \cup {""},
          err \in {"", "access_denied"}, granted \in BOOLEAN,
          token \in Tokens, account \in Accounts :
          Callback(code, state, err, granted, token, account)
    \/ \E id \in Accounts : getUserAccessTokenById(id)

SpecOAuth == InitOAuth /\ [][NextOAuth]_vars

\* requests that arrive while no connection is ready
InitDb == InitApi

NextDb ==
    \/ \E r \in Requests : EnsureConnection(r)
    \/ \E r \in Requests : ConnectToDatabase(r)
    \/ \E r \in Requests : ConnectResolved(r)
    \/ \E r \in Requests : ConnectRejected(r)

SpecDb == InitDb /\ [][NextDb]_vars

(***************************************************************************)
(* The visibility rules as the specification states them.                  *)
(***************************************************************************)
Evaluators == {"FormViewer", "FormFiller", "AppBuilder", "ComponentBuilder"}

\* a rule "evaluates true" against the answers
RuleHolds(rule, responses) ==
    LET observed == Lookup(responses, rule.fieldId)
    IN CASE rule.operator = "equals" -> SameTypeAndValue(observed, rule.value)
         [] rule.operator = "notEquals" -> ~SameTypeAndValue(observed, rule.value)
         [] rule.operator = "contains" ->
               observed.t = "string" /\ Includes(observed.v, JSString(rule.value))
         [] rule.operator = "gt" ->
               /\ observed.t = "number" /\ rule.value.t = "number"
               /\ observed.v > rule.value.v
         [] rule.operator = "lt" ->
               /\ observed.t = "number" /\ rule.value.t = "number"
               /\ observed.v < rule.value.v
         [] OTHER -> FALSE

EvalRuleList == evalField.conditionalLogic.rules

\* a rule that names a trigger field and carries a comparand
\* (C25 is about the rules that do not)
Complete(rule) == rule.fieldId # "" /\ ~StrictEquals(rule.value, Str(<<>>))

AllComplete == \A i \in 1..Len(EvalRuleList) : Complete(EvalRuleList[i])

\* C1: a field with at least one rule and match mode ALL is visible, for
\* every evaluator, exactly when every one of its rules evaluates true.
\* Stated for the fields whose rules are all complete equals rules, where
\* every evaluator agrees on what a single rule evaluates to.
C1_AllSemantics ==
    (/\ evalField.conditionalLogic.match = "all"
     /\ Len(EvalRuleList) > 0
     /\ AllComplete
     /\ \A i \in 1..Len(EvalRuleList) : EvalRuleList[i].operator = "equals")
        => \A e \in Evaluators :
              evalVisible[e] <=>
                 (\A i \in 1..Len(EvalRuleList) :
                     RuleHolds(EvalRuleList[i], evalResponses))

\* the example of C2: rules 'A equals "x"' and 'B greaterThan 5'
C2_ExampleField ==
    Field("C", "LabelC", "shortText", FALSE, <<>>,
          Logic("any", <<Rule("A", "equals", Str(<<"x">>)),
                         Rule("B", "gt", Num(5))>>))

C2_ExampleHolds(e) ==
    /\ Render(C2_ExampleField,
              [k \in {"A", "B"} |-> IF k = "A" THEN Str(<<"x">>) ELSE Num(1)])[e]
    /\ ~Render(C2_ExampleField,
               [k \in {"A", "B"} |-> IF k = "A" THEN Str(<<"y">>) ELSE Num(1)])[e]

\* C2: a field with at least one rule and match mode ANY is visible, for
\* every evaluator, exactly when at least one of its rules evaluates true;
\* with rules 'A equals "x"' and 'B greaterThan 5' it is visible for
\* {A: "x", B: 1} and hidden for {A: "y", B: 1}.
\* Stated for the fields whose rules are all complete.
C2_AnySemantics ==
    /\ \A e \in Evaluators : C2_ExampleHolds(e)
    /\ (/\ evalField.conditionalLogic.match = "any"
        /\ Len(EvalRuleList) > 0
        /\ AllComplete)
          => \A e \in Evaluators :
                evalVisible[e] <=>
                   (\E i \in 1..Len(EvalRuleList) :
                       RuleHolds(EvalRuleList[i], evalResponses))

\* C3: a field whose rule list is empty is visible for every AnswerMap and
\* for either match mode, whichever evaluator renders it.
C3_NoRulesDefault ==
    Len(EvalRuleList) = 0 => \A e \in Evaluators : evalVisible[e]

\* C3 witness: a rule-less field in match mode ANY was rendered against a
\* non-empty AnswerMap and every evaluator shows it
C3_Witness ==
    /\ Len(EvalRuleList) = 0
    /\ evalField.conditionalLogic.match = "any"
    /\ "A" \in DOMAIN evalResponses
    /\ \A e \in Evaluators : evalVisible[e]

\* the field under evaluation with its single rule's operator replaced
WithOperator(operator) ==
    [evalField EXCEPT !.conditionalLogic.rules =
        <<[EvalRuleList[1] EXCEPT !.operator = operator]>>]

\* C10: for every observed answer (an absent one included) and every
\* comparand, an equals rule is true exactly when the two have the same type
\* and the same value, and the notEquals rule on the same inputs yields the
\* negation of the equals result.  Stated for complete rules.
C10_EqualsComplement ==
    (/\ Len(EvalRuleList) = 1
     /\ EvalRuleList[1].operator = "equals"
     /\ AllComplete)
        => \A e \in Evaluators :
              /\ evalVisible[e] <=>
                    SameTypeAndValue(Lookup(evalResponses, EvalRuleList[1].fieldId),
                                     EvalRuleList[1].value)
              /\ Render(WithOperator("notEquals"), evalResponses)[e]
                    <=> ~evalVisible[e]

\* the single rule of the field under evaluation
TheRule == EvalRuleList[1]

\* the answer the single rule observes
Observed == Lookup(evalResponses, TheRule.fieldId)

\* C11: a contains rule evaluates true if and only if the observed answer is
\* text and contains the comparand's string form as a substring; for every
\* non-text observed value (number, boolean, sequence, absent) it evaluates
\* false.  Stated for a field with one complete contains rule, which is
\* visible exactly when its rule evaluates true.
C11_Contains ==
    (/\ Len(EvalRuleList) = 1
     /\ TheRule.operator = "contains"
     /\ AllComplete)
        => \A e \in Evaluators :
              /\ evalVisible[e] <=>
                    (/\ Observed.t = "string"
                     /\ Includes(Observed.v, JSString(TheRule.value)))
              /\ Observed.t # "string" => ~evalVisible[e]

\* C12: a greaterThan or lessThan rule evaluates true if and only if both the
\* observed answer and the comparand are numbers and the numeric comparison
\* holds; if either operand is non-numeric the rule evaluates false.  Stated
\* for a field with one complete rule.
C12_NumericComparison ==
    (/\ Len(EvalRuleList) = 1
     /\ TheRule.operator \in {"gt", "lt"}
     /\ AllComplete)
        => \A e \in Evaluators :
              /\ evalVisible[e] <=>
                    (/\ Observed.t = "number"
                     /\ TheRule.value.t = "number"
                     /\ IF TheRule.operator = "gt"
                        THEN Observed.v > TheRule.value.v
                        ELSE Observed.v < TheRule.value.v)
              /\ (Observed.t # "number" \/ TheRule.value.t # "number")
                    => ~evalVisible[e]

\* the rule's trigger has no answer, as when it names no field of the form,
\* or the rule compares numerically with a comparand that is not a number
Malformed(rule) ==
    \/ rule.fieldId \notin DOMAIN evalResponses
    \/ (rule.operator \in {"gt", "lt"} /\ rule.value.t # "number")

\* C13: a rule whose trigger names no field of the form (so that no answer
\* exists for it), or whose comparand is non-numeric while its operator is
\* numeric, evaluates to false, for every operator.  Stated for a field with
\* one rule that names a trigger and carries a comparand.
C13_MalformedIsFalse ==
    (/\ Len(EvalRuleList) = 1
     /\ AllComplete
     /\ Malformed(TheRule))
        => \A e \in Evaluators : ~evalVisible[e]

\* C14: for every field definition and every AnswerMap, the visibility the
\* builder's preview evaluator computes equals the visibility the filler's
\* evaluator computes.
C14_PreviewEqualsFiller ==
    evalVisible["ComponentBuilder"] = evalVisible["FormFiller"]

\* C14 witness: a field in match mode ALL with two rules of which exactly one
\* holds was rendered, and preview and filler both show it
C14_Witness ==
    /\ evalField.conditionalLogic.match = "all"
    /\ Len(EvalRuleList) = 2
    /\ AllComplete
    /\ SomeRuleResult(EvalRuleList[1], evalResponses)
    /\ ~SomeRuleResult(EvalRuleList[2], evalResponses)
    /\ evalVisible["ComponentBuilder"]
    /\ evalVisible["FormFiller"]

WhitespaceOnly(text) == \A i \in 1..Len(text) : text[i] = " "

\* absent, empty or whitespace-only text, or an empty sequence
AnswerIsEmpty(value) ==
    \/ value.t = "undefined"
    \/ (value.t = "string" /\ WhitespaceOnly(value.v))
    \/ (IsArray(value) /\ Len(value.v) = 0)

\* non-blank text or a non-empty sequence
AnswerIsFilled(value) ==
    \/ (value.t = "string" /\ ~WhitespaceOnly(value.v))
    \/ (IsArray(value) /\ Len(value.v) > 0)

FieldIndexes == 1..Len(form.fields)

VisibleNow(i) == isFieldVisible(comp, form.fields[i], formResponses)

AnswerOf(i) == Lookup(formResponses, form.fields[i].fieldId)

\* the step is a submit click whose validation failed with a new error text
ValidationFailed == error' # error /\ error'.kind = "validation"

\* the requests the step sends
NewRequests == pendingSubmits' \ pendingSubmits

\* submitForm has validated the current answers: it reported errors, or it
\* passed and the request is on its way
Validated == error.kind = "validation" \/ pendingSubmits # {}

Reported(i) ==
    error.kind = "validation" /\ form.fields[i].label \in SeqRange(error.lines)

\* C4: at submit time a required field that is hidden under the current
\* answers never produces a validation error, whether its answer is empty,
\* absent, or a stale value entered while it was visible.
C4_HiddenNotValidated ==
    [][ValidationFailed =>
          \A i \in FieldIndexes :
             (form.fields[i].required /\ ~VisibleNow(i))
                => form.fields[i].label \notin SeqRange(error'.lines)]_vars

\* C4 witness: the validation error on display is the one of the current
\* answers, and a required field that is hidden now still carries the answer
\* typed while it was visible
C4_Witness ==
    /\ error.kind = "validation"
    /\ error.lines = ValidationErrors(comp, form, formResponses)
    /\ \E i \in FieldIndexes :
          /\ form.fields[i].required
          /\ ~VisibleNow(i)
          /\ AnswerIsFilled(AnswerOf(i))
          /\ ~Reported(i)

\* C5: for every visible required field, validation reports the field as
\* missing whenever its answer is absent, empty or whitespace-only text, or
\* an empty sequence, and does not report it when the answer is non-blank
\* text or a non-empty sequence.
C5_MissingRequired ==
    Validated =>
       \A i \in FieldIndexes :
          (form.fields[i].required /\ VisibleNow(i)) =>
             /\ AnswerIsEmpty(AnswerOf(i)) => Reported(i)
             /\ AnswerIsFilled(AnswerOf(i)) => ~Reported(i)

\* C5 witness: one validation reported a whitespace-only text and accepted
\* the multipleSelect answer ["opt1", "opt2"]
C5_Witness ==
    /\ error.kind = "validation"
    /\ \E i, j \in FieldIndexes :
          /\ form.fields[i].required /\ VisibleNow(i)
          /\ SameTypeAndValue(AnswerOf(i), Str(<<" ">>))
          /\ Reported(i)
          /\ form.fields[j].required /\ VisibleNow(j)
          /\ form.fields[j].type = "multipleSelect"
          /\ SameTypeAndValue(AnswerOf(j), Arr(<<"opt1", "opt2">>))
          /\ ~Reported(j)

\* C6: for a visible required field, a numeric answer 0 and a boolean answer
\* false are treated as present: validation does not report the field as
\* missing and the submission is not blocked because of it.
C6_ZeroAndFalsePresent ==
    Validated =>
       \A i \in FieldIndexes :
          (/\ form.fields[i].required
           /\ VisibleNow(i)
           /\ (\/ SameTypeAndValue(AnswerOf(i), Num(0))
               \/ SameTypeAndValue(AnswerOf(i), Bool(FALSE))))
             => ~Reported(i)

\* C7: a submission request is sent only if every currently visible required
\* field has a non-empty answer; when validation fails no request is sent and
\* the AnswerMap is left unchanged.
C7_SubmitGated ==
    [][/\ NewRequests # {} =>
             \A i \in FieldIndexes :
                (form.fields[i].required /\ VisibleNow(i))
                   => ~AnswerIsEmpty(AnswerOf(i))
       /\ ValidationFailed =>
             /\ NewRequests = {}
             /\ formResponses' = formResponses]_vars

\* C7 witness: a request is in flight for the loaded form, every visible
\* required field of which is answered, one of them after having been blank
C7_Witness ==
    /\ submitting
    /\ \E req \in pendingSubmits : req.formId = form.id
    /\ \E i \in FieldIndexes :
          form.fields[i].required /\ VisibleNow(i) /\ AnswerIsFilled(AnswerOf(i))
    /\ \A i \in FieldIndexes :
          (form.fields[i].required /\ VisibleNow(i)) => ~AnswerIsEmpty(AnswerOf(i))

\* the fieldIds under which an AnswerMap holds a filled answer
FilledKeys(data) == {k \in DOMAIN data : AnswerIsFilled(data[k])}

\* C8: the AnswerMap handed to the submission collaborator contains exactly
\* the answers of the fields that are visible at submit time: an answer
\* stored for a field that is hidden when the user submits is not part of
\* the submitted payload.  Stated for the filled answers.
C8_PayloadVisibleOnly ==
    [][\A req \in NewRequests :
          FilledKeys(req.data) =
             {form.fields[i].fieldId : i \in {j \in FieldIndexes : VisibleNow(j)}}
             \cap FilledKeys(formResponses)]_vars

\* position in the form of the field a reported line is about
FieldOfLine(line) == CHOOSE i \in FieldIndexes : form.fields[i].label = line

\* C9: validation is not fail-fast: the error list has one entry for every
\* visible required field whose answer is missing, and the entries appear in
\* the order of the fields in the form.
C9_AllErrorsInFormOrder ==
    error.kind = "validation" =>
       /\ \A i \in FieldIndexes :
             (form.fields[i].required /\ VisibleNow(i) /\ AnswerIsEmpty(AnswerOf(i)))
                => Cardinality({k \in 1..Len(error.lines) :
                                   error.lines[k] = form.fields[i].label}) = 1
       /\ \A k \in 1..Len(error.lines) :
             \E i \in FieldIndexes :
                /\ form.fields[i].label = error.lines[k]
                /\ form.fields[i].required
                /\ VisibleNow(i)
       /\ \A k1, k2 \in 1..Len(error.lines) :
             k1 < k2 => FieldOfLine(error.lines[k1]) < FieldOfLine(error.lines[k2])

\* C9 witness: two visible required fields are missing and both are
\* reported, LabelB before LabelA as in the form
C9_Witness ==
    /\ error.kind = "validation"
    /\ form.fields[1].fieldId = "B"
    /\ error.lines = <<"LabelB", "LabelA">>

(***************************************************************************)
(* Sessions, answers and the builder's form as the specification states    *)
(* them.                                                                   *)
(***************************************************************************)
\* the step is the success path of a fetch: a request leaves the pending
\* set, no fetch error is on display afterwards, and the form is the
\* requested one
FormLoaded ==
    \E id \in pendingFetches \ pendingFetches' :
       /\ id \in FormIds
       /\ error'.kind # "fetch"
       /\ form' = StoredForms[id]

PreviewEntered == ~showPreview /\ showPreview'

\* C15: immediately after a form definition has been loaded into the filler,
\* and immediately after preview mode is entered in the builder, the
\* AnswerMap is empty, so that no answer of an earlier session is read by
\* the new one.
C15_NoLeakage ==
    [][/\ FormLoaded => formResponses' = EmptyResponses
       /\ PreviewEntered => previewResponses' = EmptyResponses]_vars

\* C15 witness: form f2 has just been loaded over a session on form f1 whose
\* answers are still on their way to the server, and the AnswerMap is empty
C15_Witness ==
    /\ form.id = "f2"
    /\ formResponses = EmptyResponses
    /\ \E req \in pendingSubmits : req.formId = "f1" /\ FilledKeys(req.data) # {}

\* next holds value under fieldId and, under every other key, what prev held
Replaced(prev, next, fieldId, value) ==
    /\ DOMAIN next = DOMAIN prev \cup {fieldId}
    /\ SameTypeAndValue(next[fieldId], value)
    /\ \A k \in DOMAIN prev \ {fieldId} : SameTypeAndValue(next[k], prev[k])

\* C16: setAnswer(fieldId, value) replaces the stored answer of that fieldId
\* with value, without merging it with the prior value, and leaves the answer
\* of every other fieldId and the FormDefinition unchanged; in the filler and
\* in the builder's preview.
C16_SetAnswerFrame ==
    [][/\ \A fieldId \in {"A", "B"}, text \in TypedTexts :
             HandleInputChange(fieldId, Str(text)) =>
                /\ Replaced(formResponses, formResponses', fieldId, Str(text))
                /\ form' = form
       /\ \A fieldId \in {"A", "B"}, text \in TypedTexts :
             HandlePreviewInputChange(fieldId, Str(text)) =>
                /\ Replaced(previewResponses, previewResponses', fieldId, Str(text))
                /\ formDefinition' = formDefinition]_vars

\* C16 witness: in the preview both fields are answered, A with the text
\* that replaced the one that had shown B
C16_Witness ==
    /\ showPreview
    /\ Len(formDefinition.fields) = 2
    /\ formDefinition.fields[2].fieldId = "B"
    /\ Len(formDefinition.fields[2].conditionalLogic.rules) = 1
    /\ formDefinition.fields[2].conditionalLogic.rules[1] =
          Rule("A", "equals", Str(<<"x">>))
    /\ DOMAIN previewResponses = {"A", "B"}
    /\ previewResponses["A"] = Str(<<"y">>)
    /\ previewResponses["B"] = Str(<<"x">>)

BuilderIndexes == 1..Len(formDefinition.fields)

\* C18: after any sequence of builder operations no two fields of the form
\* under construction have the same fieldId.
C18_FieldIdUnique ==
    \A i, j \in BuilderIndexes :
       i # j => formDefinition.fields[i].fieldId # formDefinition.fields[j].fieldId

\* C19: in every form the builder can produce, each rule with a selected
\* trigger references a field of the same form that is positioned before the
\* rule's own field (no self-reference, no forward reference, no reference to
\* a removed field).
C19_TriggerBefore ==
    \A i \in BuilderIndexes :
       \A r \in 1..Len(formDefinition.fields[i].conditionalLogic.rules) :
          LET trigger == formDefinition.fields[i].conditionalLogic.rules[r].fieldId
          IN trigger # "" =>
                \E j \in 1..(i - 1) : formDefinition.fields[j].fieldId = trigger

\* some rule of the form names a field of the form that is its own or comes
\* no earlier than its own
HasCycle(f) ==
    \E i \in 1..Len(f.fields) : \E j \in TriggerPositions(f, f.fields[i]) : j >= i

\* C20: evaluating the visible set terminates for every FormDefinition,
\* forms whose rules are self-referential or form a cycle included: a render
\* pass that has started reaches the end of the form.
C20_RenderTerminates == (~RenderDone) ~> RenderDone

\* C20 witness: a pass over the form whose two fields watch each other has
\* ended, answers being present, with a result for each field
C20_Witness ==
    /\ form.id = "cycle"
    /\ HasCycle(form)
    /\ formResponses # EmptyResponses
    /\ RenderDone
    /\ Len(renderVisible) = Len(form.fields)

\* C25: in the builder's live preview and in the form filler, a rule with an
\* unset trigger field or an empty-string comparand counts as true, so that a
\* field carrying such a rule is visible for every AnswerMap, the empty one
\* included.
C25_VacuousTruth ==
    (\E i \in 1..Len(EvalRuleList) : ~Complete(EvalRuleList[i]))
       => evalVisible["ComponentBuilder"] /\ evalVisible["FormFiller"]

\* C25 witness: a field in match mode ALL with an unset rule and a rule that
\* is false under the empty AnswerMap is shown by preview and filler, and
\* hidden by the FormViewer
C25_Witness ==
    /\ evalResponses = EmptyResponses
    /\ evalField.conditionalLogic.match = "all"
    /\ Len(EvalRuleList) = 2
    /\ ~Complete(EvalRuleList[1])
    /\ Complete(EvalRuleList[2])
    /\ EvalRuleList[2].operator = "equals"
    /\ evalVisible["ComponentBuilder"]
    /\ evalVisible["FormFiller"]
    /\ ~evalVisible["FormViewer"]

\* C26: in a filler session on the form whose field A has the only rule
\* 'B equals x' and whose field B has the only rule 'A equals y', both A and
\* B are hidden in every reachable state and neither answer is collected.
C26_CyclicLockOut ==
    form.id = "cycle" =>
       /\ \A i \in FieldIndexes : ~VisibleNow(i)
       /\ formResponses = EmptyResponses

\* C26 witness: the form with the two fields that watch each other was
\* submitted, none of its fields showing, with no answer in the request
C26_Witness ==
    /\ form.id = "cycle"
    /\ \A i \in FieldIndexes : ~VisibleNow(i)
    /\ \E req \in pendingSubmits : req.formId = "cycle" /\ req.data = EmptyResponses

\* C27: every submission request is addressed to the form the answers belong
\* to: the form id of the request is the id of the FormDefinition loaded in
\* the session, also after the form id input or prop has changed without a
\* completed reload.
C27_SubmitToLoadedForm ==
    [][\A req \in NewRequests : req.formId = form.id]_vars

\* a request of the session settles in this step
Settled == pendingSubmits' # pendingSubmits /\ pendingSubmits' \subseteq pendingSubmits

\* C28: a failed submission leaves the AnswerMap as it was, so that the same
\* answers can be resubmitted; only a successful submission resets the
\* AnswerMap to empty; in both cases the submitting flag is eventually
\* cleared.
C28_FailedSubmitKeepsAnswers ==
    /\ [][/\ Settled =>
                IF error'.kind = "submit"
                THEN formResponses' = formResponses
                ELSE formResponses' = EmptyResponses
          /\ formResponses' # formResponses => (Settled /\ error'.kind # "submit")]_vars
    /\ submitting ~> ~submitting

\* C28 witness: a submission has failed, the flag is cleared and the answers
\* are still there
C28_Witness ==
    /\ error.kind = "submit"
    /\ ~submitting
    /\ pendingSubmits = {}
    /\ FilledKeys(formResponses) # {}

(***************************************************************************)
(* The server and the builder's requests.                                  *)
(***************************************************************************)
\* the forms a step removes from the Form collection
DeletedForms == DOMAIN dbForms \ DOMAIN dbForms'

\* C21: a stored form is deleted only at the request of its owner: a delete
\* request sent by anyone but the user who created the form leaves it stored
\* and retrievable.
C21_DeleteByOwnerOnly ==
    [][\A id \in DeletedForms : apiRequest'.requester = dbForms[id]]_vars

\* the state the query of a callback carries is the unexpired one the session
\* holds
StateVerified(state) ==
    /\ state # ""
    /\ session.oauthState # ""
    /\ state = session.oauthState
    /\ now <= session.oauthStateExpiry

\* a step in which the callback route answered
CallbackAnswered ==
    /\ oauthResponse'.route = "callback"
    /\ \/ oauthResponse' # oauthResponse
       \/ session' # session
       \/ exchanges' # exchanges

\* a step that exchanged a code or wrote a user
ExchangedOrWrote == exchanges' # exchanges \/ dbUsers' # dbUsers

\* the state was stored by one of the two initiating routes
StoredByInitiation ==
    session.oauthState # "" => session.oauthState \in OAuthStates

\* C22 as stated: the callback exchanges the code and writes the user only
\* with the unexpired state of the session; with a missing, mismatching or
\* expired state, or with no state in the session, it answers 400 and neither
\* exchanges nor writes.
C22_StateVerification ==
    [][/\ ExchangedOrWrote =>
             CallbackAnswered /\ StateVerified(oauthResponse'.state)
                              /\ StoredByInitiation
       /\ (CallbackAnswered /\ ~StateVerified(oauthResponse'.state)) =>
             /\ oauthResponse'.status = 400
             /\ ~ExchangedOrWrote]_vars

\* C22, amended: the callback exchanges the code and writes the user only with
\* the unexpired state of the session; without it, it neither exchanges nor
\* writes, and it answers 400 unless the query carries an error parameter, in
\* which case it redirects to the frontend with that error.
C22_StateVerificationAmended ==
    [][/\ ExchangedOrWrote =>
             CallbackAnswered /\ StateVerified(oauthResponse'.state)
                              /\ StoredByInitiation
       /\ (CallbackAnswered /\ ~StateVerified(oauthResponse'.state)) =>
             /\ ~ExchangedOrWrote
             /\ IF oauthResponse'.error = ""
                THEN oauthResponse'.status = 400
                ELSE oauthResponse'.status = 302 /\ oauthResponse'.to = "error"]_vars

\* a callback with the state of the session was answered with the user's id:
\* the code was exchanged and the user saved, and the state is used up
C22_Witness ==
    /\ oauthResponse.route = "callback"
    /\ oauthResponse.state \in OAuthStates
    /\ oauthResponse.to = "userId"
    /\ exchanges > 0
    /\ session = NoSession

\* C23: after a successful callback has stored access token T for a user,
\* every later Airtable call on behalf of that user finds a stored token and
\* uses T, until a later callback replaces it; the call never fails with
\* 'Airtable access token not found for user'.
C23_TokenFound ==
    [][airtableCall' # airtableCall /\ issued[airtableCall'.userId] # "" =>
          /\ airtableCall'.status = 200
          /\ airtableCall'.token = issued[airtableCall'.userId]]_vars

\* no mongoose.connect has been rejected
NoConnectFailure == \A r \in Requests : dbPc[r] # "failed"

\* C24: connectToDatabase connects once and reuses the connection: whatever
\* the interleaving of ensureConnection and connectToDatabase calls, with no
\* disconnect and no failed connect, mongoose.connect is invoked at most once
\* and the connection event handlers are registered at most once.
C24_ConnectsOnce ==
    NoConnectFailure => connectCalls <= 1 /\ handlerCount <= 1

\* the forms the save requests of a step carry
SentForms == {req.body : req \in pendingSaves' \ pendingSaves}

\* a form that has a rule without a trigger field or without a value
HasIncompleteRule(f) ==
    \E i \in 1..Len(f.fields) :
       \E j \in 1..Len(f.fields[i].conditionalLogic.rules) :
          ~Complete(f.fields[i].conditionalLogic.rules[j])

\* C29: saveForm sends the create-form request only if every rule of every
\* field has a non-empty trigger field and a non-empty value; a form with an
\* incomplete rule is rejected with a validation error and nothing is sent.
C29_SaveOnlyComplete ==
    [][/\ \A body \in SentForms : ~HasIncompleteRule(body)
       /\ HasIncompleteRule(formDefinition) => pendingSaves' \subseteq pendingSaves]_vars

\* no request for tables or fields is in flight
NoFetchInFlight == pendingTables = <<>> /\ pendingFields = <<>>

\* C30: once no fetch is in flight, the table list shown is the one fetched
\* for the selected base and the available fields shown are the ones fetched
\* for the selected base and table (nothing is shown where a fetch failed or
\* nothing is selected): a late response never overwrites them.
C30_ShownMatchesSelection ==
    NoFetchInFlight =>
       /\ tables # <<>> => selectedBase # "" /\ tables = TablesOf(selectedBase)
       /\ tableFields # <<>> =>
             /\ selectedTable # ""
             /\ tableFields = FieldsOf(selectedBase, selectedTable)

====
